---- MODULE Spec2Model ----
(***************************************************************************)
(* A model of branila/airscraper: the LZW decoder (lzw.go), the WebSocket  *)
(* session and its read loop (websocket.go), the rate-limited reverse      *)
(* geocoding call (geocoding.go), the location label (display.go) and the  *)
(* shutdown coordination of Client.Run (client.go).                        *)
(*                                                                         *)
(* Strings and byte slices are sequences of integers 0..255.  Time is      *)
(* discrete, one unit per second.                                          *)
(***************************************************************************)
EXTENDS Naturals, Integers, Sequences, FiniteSets, TLC

VARIABLES
    dec,        \* the state of one LZWDecoder.Decode call
    plain,      \* the payload the frame under decode was encoded from, or "raw"
    ws,         \* WSClient: the conn field and the state of the connection it holds
    calls,      \* history: the WSClient methods called directly, with their results
    sessionOpen,\* history: a Connect succeeded and no Close was called since
    run,        \* Client.Run: where it is, what it returned, the grace timer
    ctxDone,    \* the context handed to ReadMessages has been cancelled
    interrupt,  \* number of signals waiting in the interrupt channel (capacity 1)
    readErr,    \* the readErr channel (capacity 1)
    rd,         \* the ReadMessages call: where it is, its locals and timers
    framesLeft, \* frames the peer may still deliver
    emitted,    \* history: the records handed to DisplayStrike, in order
    log,        \* history: one entry per frame processMessage finished with
    lastRead,   \* history: what the last conn.ReadMessage returned
    clock       \* history: time since the last lookup began, its gap to the one
                \* before, time since cancellation was requested

decVars == <<dec, plain>>

sessVars == <<calls, sessionOpen>>

runVars == <<run, interrupt, readErr>>

rdVars == <<rd, framesLeft, emitted, log, lastRead>>

pipeVars == <<run, ctxDone, interrupt, readErr, rd, framesLeft, emitted, log,
              lastRead, clock>>

\* What no step of ReadMessages changes.
notReader == <<dec, plain, calls, sessionOpen, ws, run, ctxDone, interrupt, readErr>>

\* What no step of Client.Run changes.
notRun == <<dec, plain, calls, sessionOpen, framesLeft, emitted, log, lastRead, clock>>

vars == <<dec, plain, ws, calls, sessionOpen, run, ctxDone, interrupt, readErr,
          rd, framesLeft, emitted, log, lastRead, clock>>

----------------------------------------------------------------------------
(* Bounds *)

\* Longest payload handed to the encoder.
MaxPlainLen == 4

\* Longest raw frame (in bytes) handed to Decode directly.
MaxRawLen == 4

\* Most direct calls made on one WSClient.
MaxCalls == 4

\* Most frames the peer delivers in one run.
MaxFrames == 2

\* Most Decode calls made on one LZWDecoder.
MaxDecodeCalls == 3

----------------------------------------------------------------------------
(* Go string conversions *)

SeqsUpTo(S, n) == UNION {[1..k -> S] : k \in 0..n}

RuneError == 65533

\* string(rune(r)): the UTF-8 encoding of code point r; an invalid code point
\* (a surrogate or a value above 0x10FFFF) encodes as U+FFFD.
RECURSIVE StringOfRune(_)
StringOfRune(r) ==
    IF r < 128 THEN <<r>>
    ELSE IF r < 2048 THEN <<192 + (r \div 64), 128 + (r % 64)>>
    ELSE IF (r >= 55296 /\ r <= 57343) \/ r > 1114111 THEN StringOfRune(RuneError)
    ELSE IF r < 65536 THEN
        <<224 + (r \div 4096), 128 + ((r \div 64) % 64), 128 + (r % 64)>>
    ELSE <<240 + (r \div 262144), 128 + ((r \div 4096) % 64),
           128 + ((r \div 64) % 64), 128 + (r % 64)>>

\* byte(r): the low eight bits of the rune.
ByteOfRune(r) == r % 256

\* The length a UTF-8 lead byte announces (0 for a byte that cannot lead).
LeadSize(b) ==
    IF b < 128 THEN 1
    ELSE IF b >= 194 /\ b <= 223 THEN 2
    ELSE IF b >= 224 /\ b <= 239 THEN 3
    ELSE IF b >= 240 /\ b <= 244 THEN 4
    ELSE 0

\* The range the second byte must lie in, by lead byte.
AcceptLo(b) == IF b = 224 THEN 160 ELSE IF b = 240 THEN 144 ELSE 128
AcceptHi(b) == IF b = 237 THEN 159 ELSE IF b = 244 THEN 143 ELSE 191

IsCont(b) == b >= 128 /\ b <= 191

\* utf8.DecodeRune at position i of s: the rune and the bytes it consumes.
\* An ill-formed sequence yields U+FFFD and consumes one byte.
DecodeRuneAt(s, i) ==
    LET p0 == s[i]
        sz == LeadSize(p0)
        n  == Len(s) - i + 1
        bad == [rune |-> RuneError, size |-> 1]
    IN  IF sz = 1 THEN [rune |-> p0, size |-> 1]
        ELSE IF sz = 0 \/ n < sz THEN bad
        ELSE IF s[i+1] < AcceptLo(p0) \/ s[i+1] > AcceptHi(p0) THEN bad
        ELSE IF sz = 2 THEN [rune |-> (p0 % 32) * 64 + (s[i+1] % 64), size |-> 2]
        ELSE IF ~IsCont(s[i+2]) THEN bad
        ELSE IF sz = 3
             THEN [rune |-> (p0 % 16) * 4096 + (s[i+1] % 64) * 64 + (s[i+2] % 64),
                   size |-> 3]
        ELSE IF ~IsCont(s[i+3]) THEN bad
        ELSE [rune |-> (p0 % 8) * 262144 + (s[i+1] % 64) * 4096
                        + (s[i+2] % 64) * 64 + (s[i+3] % 64),
              size |-> 4]

\* []rune(string(b)): the code points of the byte slice read as UTF-8.
RECURSIVE RunesFrom(_, _)
RunesFrom(s, i) ==
    IF i > Len(s) THEN <<>>
    ELSE LET d == DecodeRuneAt(s, i)
         IN  <<d.rune>> \o RunesFrom(s, i + d.size)

Runes(s) == RunesFrom(s, 1)

----------------------------------------------------------------------------
(* LZWDecoder.Decode *)

\* The dictionary after the seeding loop: code i -> string(rune(i)).
SeedDict == [i \in 0..255 |-> StringOfRune(i)]

\* The dictionary entries a call registered, in the order of their codes.
Additions(st) == [k \in 1..(st.code - 256) |-> st.dict[255 + k]]

\* A set-up that appends the first symbol the way the loop appends the others.
DecodeInitAppendsString(data) ==
    [dict   |-> SeedDict,
     prev   |-> StringOfRune(data[1]),
     result |-> StringOfRune(data[1]),
     code   |-> 256,
     err    |-> FALSE,
     trace  |-> <<>>]

\* A set-up that leaves prev at its zero value.
DecodeInitNoPrev(data) ==
    [dict   |-> SeedDict,
     prev   |-> <<>>,
     result |-> <<ByteOfRune(data[1])>>,
     code   |-> 256,
     err    |-> FALSE,
     trace  |-> <<>>]

\* The locals of Decode after its first symbol has been consumed.  trace
\* (history) records the branch each later symbol took.
DecodeInit(data) ==
    [dict   |-> SeedDict,
     prev   |-> StringOfRune(data[1]),
     result |-> <<ByteOfRune(data[1])>>,
     code   |-> 256,
     err    |-> FALSE,
     trace  |-> <<>>]

\* The entry the loop body selects for currCode, and the branch that chose it.
SelectEntry(st, currCode) ==
    IF currCode < 256
        THEN [branch |-> "seed", entry |-> StringOfRune(currCode)]
    ELSE IF currCode \in DOMAIN st.dict
        THEN [branch |-> "known", entry |-> st.dict[currCode]]
    ELSE IF Len(st.prev) = 0
        THEN [branch |-> "error", entry |-> <<>>]
    ELSE [branch |-> "fallback", entry |-> st.prev \o StringOfRune(st.prev[1])]

\* A body that registers the new entry one code too far.
DecodeIterSkipsCode(st, currCode) ==
    LET sel == SelectEntry(st, currCode)
    IN  IF sel.branch = "error" THEN [st EXCEPT !.err = TRUE]
        ELSE [dict   |-> ((st.code + 1) :> (st.prev \o StringOfRune(sel.entry[1])))
                           @@ st.dict,
              prev   |-> sel.entry,
              result |-> st.result \o sel.entry,
              code   |-> st.code + 1,
              err    |-> FALSE,
              trace  |-> Append(st.trace, sel.branch)]

\* One iteration of the loop over data[1:].
DecodeIter(st, currCode) ==
    LET sel == SelectEntry(st, currCode)
    IN  IF sel.branch = "error" THEN [st EXCEPT !.err = TRUE]
        ELSE [dict   |-> IF Len(sel.entry) > 0
                           THEN (st.code :> (st.prev \o StringOfRune(sel.entry[1])))
                                @@ st.dict
                           ELSE st.dict,
              prev   |-> sel.entry,
              result |-> st.result \o sel.entry,
              code   |-> IF Len(sel.entry) > 0 THEN st.code + 1 ELSE st.code,
              err    |-> FALSE,
              trace  |-> Append(st.trace, sel.branch)]

RECURSIVE DecodeLoop(_, _, _)
DecodeLoop(st, data, i) ==
    IF i > Len(data) \/ st.err THEN st
    ELSE DecodeLoop(DecodeIter(st, data[i]), data, i + 1)

\* Decode as a function of the frame: the bytes returned and the error flag.
Decode(inputBytes) ==
    IF Len(inputBytes) = 0 THEN [result |-> <<>>, err |-> FALSE]
    ELSE LET data == Runes(inputBytes)
             st   == DecodeLoop(DecodeInit(data), data, 2)
         IN  IF st.err THEN [result |-> <<>>, err |-> TRUE]
             ELSE [result |-> st.result, err |-> FALSE]

----------------------------------------------------------------------------
(* The matching encoder and the wire form of its output *)

\* The code of string w in the encoder's dictionary: a single byte is its own
\* code, an added string the code it was registered under (0 if absent).
CodeOf(w, added) ==
    IF Len(w) = 1 THEN w[1]
    ELSE IF \E k \in 1..Len(added) : added[k] = w
         THEN 255 + (CHOOSE k \in 1..Len(added) : added[k] = w)
         ELSE 0

InEncDict(w, added) == Len(w) = 1 \/ \E k \in 1..Len(added) : added[k] = w

\* Adaptive-dictionary encoder: 256 singleton seeds, new codes assigned
\* consecutively from 256, no reset.
RECURSIVE EncodeFrom(_, _, _, _)
EncodeFrom(x, i, w, added) ==
    IF i > Len(x)
        THEN IF Len(w) = 0 THEN <<>> ELSE <<CodeOf(w, added)>>
    ELSE LET wc == Append(w, x[i])
         IN  IF InEncDict(wc, added)
                 THEN EncodeFrom(x, i + 1, wc, added)
                 ELSE <<CodeOf(w, added)>>
                      \o EncodeFrom(x, i + 1, <<x[i]>>, Append(added, wc))

Encode(x) == EncodeFrom(x, 1, <<>>, <<>>)

\* The text frame carrying a symbol sequence: each code as one UTF-8 character.
RECURSIVE FrameOf(_)
FrameOf(symbols) ==
    IF Len(symbols) = 0 THEN <<>>
    ELSE StringOfRune(Head(symbols)) \o FrameOf(Tail(symbols))

----------------------------------------------------------------------------
(* Decoder specification: one Decode call on a bounded frame *)

\* Payload bytes offered to the encoder: two ASCII letters and a high byte.
PlainAlphabet == {65, 66, 200}

\* Bytes of raw frames: "A", "B" and the UTF-8 pieces of U+0100 and U+0101.
RawAlphabet == {65, 66, 196, 128, 129}

\* past (history): what the earlier calls on the same decoder were given and
\* what they returned and registered.
DecIdle == [pc |-> "start", frame |-> <<>>, data |-> <<>>, i |-> 0,
            st |-> [dict |-> <<>>, prev |-> <<>>, result |-> <<>>, code |-> 0,
                    err |-> FALSE, trace |-> <<>>],
            past |-> <<>>]

InitDecodeVars ==
    \/ \E x \in SeqsUpTo(PlainAlphabet, MaxPlainLen) :
          /\ plain = [given |-> TRUE, x |-> x]
          /\ dec = [DecIdle EXCEPT !.frame = FrameOf(Encode(x))]
    \/ \E f \in SeqsUpTo(RawAlphabet, MaxRawLen) :
          /\ plain = [given |-> FALSE, x |-> <<>>]
          /\ dec = [DecIdle EXCEPT !.frame = f]

DecodeUnused == plain = [given |-> FALSE, x |-> <<>>] /\ dec = DecIdle

\* A Decode that seeds its dictionary before it looks at the frame's length.
DecodeStartSeedsFirst ==
    /\ dec.pc = "start"
    /\ IF Len(dec.frame) = 0
         THEN dec' = [dec EXCEPT !.pc = "done", !.st.dict = SeedDict, !.st.code = 256]
         ELSE LET data == Runes(dec.frame)
              IN  dec' = [dec EXCEPT !.pc = "loop", !.data = data, !.i = 2,
                                     !.st = DecodeInit(data)]
    /\ UNCHANGED <<plain, ws, sessVars, pipeVars>>

\* A Decode working on a dictionary that belongs to the decoder: each call
\* starts from the entries the call before it left.
DecodeStartKeepsDict ==
    /\ dec.pc = "start"
    /\ IF Len(dec.frame) = 0
         THEN dec' = [dec EXCEPT !.pc = "done"]
         ELSE LET data == Runes(dec.frame)
                  kept == IF Len(dec.past) = 0 THEN <<>>
                          ELSE dec.past[Len(dec.past)].added
                  st0  == DecodeInit(data)
              IN  dec' = [dec EXCEPT
                            !.pc = "loop", !.data = data, !.i = 2,
                            !.st = [st0 EXCEPT
                                      !.dict = [c \in 256..(255 + Len(kept))
                                                  |-> kept[c - 255]] @@ st0.dict,
                                      !.code = 256 + Len(kept)]]
    /\ UNCHANGED <<plain, ws, sessVars, pipeVars>>

\* Lines 138-154: the empty-frame return, or the set-up before the loop.
DecodeStart ==
    /\ dec.pc = "start"
    /\ IF Len(dec.frame) = 0
         THEN dec' = [dec EXCEPT !.pc = "done"]
         ELSE LET data == Runes(dec.frame)
              IN  dec' = [dec EXCEPT !.pc = "loop", !.data = data, !.i = 2,
                                     !.st = DecodeInit(data)]
    /\ UNCHANGED <<plain, ws, sessVars, pipeVars>>

\* Lines 156-181: one loop iteration; the error return ends the call.
DecodeStep ==
    /\ dec.pc = "loop"
    /\ dec.i <= Len(dec.data)
    /\ LET st2 == DecodeIter(dec.st, dec.data[dec.i])
       IN  dec' = [dec EXCEPT !.st = st2, !.i = dec.i + 1,
                              !.pc = IF st2.err THEN "done" ELSE "loop"]
    /\ UNCHANGED <<plain, ws, sessVars, pipeVars>>

\* Line 183: return result, nil.
DecodeReturn ==
    /\ dec.pc = "loop"
    /\ dec.i > Len(dec.data)
    /\ dec' = [dec EXCEPT !.pc = "done"]
    /\ UNCHANGED <<plain, ws, sessVars, pipeVars>>

NextDecode == DecodeStart \/ DecodeStep \/ DecodeReturn

\* What the finished call returns.
DecReturned == [result |-> IF dec.st.err THEN <<>> ELSE dec.st.result,
                err |-> dec.st.err]

\* The finished call as history: its frame, what it returned, the entries it
\* registered.
DecSummary == [frame |-> dec.frame, returned |-> DecReturned,
               added |-> Additions(dec.st), trace |-> dec.st.trace]

\* Frames decoded between two calls on the same frame: one that registers two
\* entries ("AB" and "BA", symbols [65, 66, 256]) and one that registers
\* "BB" and takes it ([66, 66, 256]).
InterFrames == {<<65, 66, 196, 128>>, <<66, 66, 196, 128>>}

\* The next call on the same LZWDecoder: the first frame again, or another one.
\* The decoder has no fields, so the call starts from nothing but its frame.
DecodeAgain ==
    /\ dec.pc = "done"
    /\ Len(dec.past) < MaxDecodeCalls - 1
    /\ \E f \in InterFrames
                \cup {IF Len(dec.past) = 0 THEN dec.frame ELSE dec.past[1].frame} :
          dec' = [DecIdle EXCEPT !.frame = f, !.past = Append(dec.past, DecSummary)]
    /\ plain' = [given |-> FALSE, x |-> <<>>]
    /\ UNCHANGED <<ws, sessVars, pipeVars>>

NextDecodeCalls == DecodeStart \/ DecodeStep \/ DecodeReturn \/ DecodeAgain

----------------------------------------------------------------------------
(* Error values *)

\* Every error is a record of one shape; code is the close code of a
\* websocket.CloseError and 0 otherwise.
Err(kind, code) == [kind |-> kind, code |-> code]

Nil == Err("nil", 0)

\* fmt.Errorf("connection not established")
ErrNotEstablished == Err("not_established", 0)

----------------------------------------------------------------------------
(* WSClient: Connect, Close, SendMessage *)

\* NewWSClient leaves conn nil.  closed: the connection's Close has run;
\* writeErr: the connection refuses further writes (a close frame was sent or a
\* write failed).
NewWSClient == [conn |-> "nil", closed |-> FALSE, writeErr |-> FALSE]

\* conn.WriteMessage on the held connection: the error it returns and the
\* connection afterwards.  A write fails once the connection is closed or has
\* a write error, or when the transport fails (~transportOk); sending the close
\* frame ends the connection's writes.
WriteMessage(s, isClose, transportOk) ==
    IF s.closed \/ s.writeErr \/ ~transportOk
        THEN [ws |-> [s EXCEPT !.writeErr = TRUE], err |-> Err("write", 0)]
        ELSE [ws |-> [s EXCEPT !.writeErr = isClose], err |-> Nil]

\* A Connect that stores the handle whatever the dial returned.
ConnectKeepsHandle(s, dialOk) ==
    [ws  |-> [conn |-> "set", closed |-> FALSE, writeErr |-> ~dialOk],
     err |-> IF dialOk THEN Nil ELSE Err("connect", 0)]

\* WSClient.Connect: a failed dial returns before conn is assigned.
Connect(s, dialOk) ==
    IF ~dialOk
        THEN [ws |-> s, err |-> Err("connect", 0)]
        ELSE [ws |-> [conn |-> "set", closed |-> FALSE, writeErr |-> FALSE],
              err |-> Nil]

\* A Close that sends the close frame and leaves the connection open.
CloseKeepsTransport(s, transportOk) ==
    IF s.conn = "nil"
        THEN [ws |-> s, err |-> Nil]
        ELSE [ws |-> WriteMessage(s, TRUE, transportOk).ws, err |-> Nil]

\* WSClient.Close: nil conn returns nil; otherwise the close frame is written
\* (its error only logged) and the result of conn.Close() is returned, which is
\* an error when the connection is already closed.  conn is left as it is.
Close(s, transportOk) ==
    IF s.conn = "nil"
        THEN [ws |-> s, err |-> Nil]
        ELSE LET w == WriteMessage(s, TRUE, transportOk)
             IN  [ws  |-> [w.ws EXCEPT !.closed = TRUE],
                  err |-> IF s.closed THEN Err("closed", 0) ELSE Nil]

\* WSClient.SendMessage: the not-established error on a nil conn, before any
\* write; otherwise one WriteMessage, its failure wrapped.
SendMessage(s, transportOk) ==
    IF s.conn = "nil"
        THEN [ws |-> s, err |-> ErrNotEstablished, wrote |-> FALSE]
        ELSE LET w == WriteMessage(s, FALSE, transportOk)
             IN  [ws |-> w.ws,
                  err |-> IF w.err = Nil THEN Nil ELSE Err("send", 0),
                  wrote |-> TRUE]

----------------------------------------------------------------------------
(* Session specification: a caller invoking WSClient's methods in any order *)

InitSession ==
    /\ ws = NewWSClient
    /\ calls = <<>>
    /\ sessionOpen = FALSE

Called(op, err, wrote) ==
    [op |-> op, err |-> err, wrote |-> wrote, open |-> sessionOpen, conn |-> ws.conn]

CallConnect ==
    /\ Len(calls) < MaxCalls
    /\ \E dialOk \in BOOLEAN :
          LET r == Connect(ws, dialOk)
          IN  /\ ws' = r.ws
              /\ calls' = Append(calls, Called("Connect", r.err, FALSE))
              /\ sessionOpen' = IF r.err = Nil THEN TRUE ELSE sessionOpen
    /\ UNCHANGED <<decVars, pipeVars>>

CallClose ==
    /\ Len(calls) < MaxCalls
    /\ \E transportOk \in BOOLEAN :
          LET r == Close(ws, transportOk)
          IN  /\ ws' = r.ws
              /\ calls' = Append(calls, Called("Close", r.err, FALSE))
              /\ sessionOpen' = FALSE
    /\ UNCHANGED <<decVars, pipeVars>>

CallSendMessage ==
    /\ Len(calls) < MaxCalls
    /\ \E transportOk \in BOOLEAN :
          LET r == SendMessage(ws, transportOk)
          IN  /\ ws' = r.ws
              /\ calls' = Append(calls, Called("SendMessage", r.err, r.wrote))
              /\ UNCHANGED sessionOpen
    /\ UNCHANGED <<decVars, pipeVars>>

----------------------------------------------------------------------------
(* Program constants, in seconds *)

ReadTimeout == 10

HTTPTimeout == 10

\* time.Sleep(1 * time.Second) after a lookup.
RateLimitDelay == 1

\* time.After(5 * time.Second) in Client.Run.
GraceWindow == 5

\* websocket close codes.
CloseNormalClosure == 1000
CloseGoingAway == 1001
CloseAbnormalClosure == 1006

\* The close codes a read may report: the peer's close frame (normal closure,
\* going away, or another code such as 1002, protocol error) and a connection
\* lost without a close frame (abnormal closure).
CloseCodes == {CloseNormalClosure, CloseGoingAway, CloseAbnormalClosure, 1002}

----------------------------------------------------------------------------
(* Strike records, deserialization and the location label *)

\* The fields of LightningStrike the model follows.
ZeroStrike == [Alt |-> 0, Lat |-> 0, Lon |-> 0, Pol |-> 0, Status |-> 0]

\* {}
DocEmpty == <<123, 125>>

\* {"alt":1}
DocAlt == <<123, 34, 97, 108, 116, 34, 58, 49, 125>>

\* {"pol":1}
DocPol == <<123, 34, 112, 111, 108, 34, 58, 49, 125>>

RECURSIVE TrimRight(_)
TrimRight(b) ==
    IF Len(b) > 0 /\ b[Len(b)] = 32 THEN TrimRight(SubSeq(b, 1, Len(b) - 1)) ELSE b

\* json.Unmarshal into a LightningStrike, on the payloads the model's frames
\* decode to: an object document (trailing spaces allowed) fills the struct,
\* anything else met here (empty input, a cut-off object) is a syntax error.
Unmarshal(payload) ==
    LET doc == TrimRight(payload)
    IN  IF doc = DocEmpty THEN [ok |-> TRUE, strike |-> ZeroStrike]
        ELSE IF doc = DocAlt THEN [ok |-> TRUE, strike |-> [ZeroStrike EXCEPT !.Alt = 1]]
        ELSE IF doc = DocPol THEN [ok |-> TRUE, strike |-> [ZeroStrike EXCEPT !.Pol = 1]]
        ELSE [ok |-> FALSE, strike |-> ZeroStrike]

EmptyAddress ==
    [Road |-> "", Village |-> "", Town |-> "", City |-> "", Suburb |-> "",
     County |-> "", State |-> "", Province |-> "", Region |-> "", Country |-> ""]

\* A *NominatimResponse: nil, or a response with its address.
NilLocation == [isNil |-> TRUE, Address |-> EmptyAddress]

Response(address) == [isNil |-> FALSE, Address |-> address]

\* "Location unknown"; a label is the sequence of its parts and the separators
\* between them.
LocationUnknown == <<"Location unknown">>

OneOf(s) == IF s # "" THEN <<s>> ELSE <<>>

\* strings.Join(parts, sep): the parts with sep between each two.
RECURSIVE Join(_, _)
Join(parts, sep) ==
    IF Len(parts) <= 1 THEN parts
    ELSE <<Head(parts), sep>> \o Join(Tail(parts), sep)

\* A label made of the first non-empty of road, settlement and admin field
\* only, followed by the country.
FormatLocationFirstOnly(location) ==
    IF location.isNil THEN LocationUnknown
    ELSE LET a == location.Address
             first ==
                 IF a.Road # "" THEN <<a.Road>>
                 ELSE IF a.Village # "" THEN <<a.Village>>
                 ELSE IF a.Town # "" THEN <<a.Town>>
                 ELSE IF a.City # "" THEN <<a.City>>
                 ELSE IF a.Suburb # "" THEN <<a.Suburb>>
                 ELSE IF a.County # "" THEN <<a.County>>
                 ELSE IF a.State # "" THEN <<a.State>>
                 ELSE IF a.Province # "" THEN <<a.Province>>
                 ELSE IF a.Region # "" THEN <<a.Region>>
                 ELSE <<>>
             parts == first \o OneOf(a.Country)
         IN  IF Len(parts) = 0 THEN LocationUnknown ELSE Join(parts, ", ")

\* FormatLocation.
FormatLocation(location) ==
    IF location.isNil THEN LocationUnknown
    ELSE LET a == location.Address
             parts ==
                 OneOf(a.Road)
                 \o (IF a.Village # "" THEN <<a.Village>>
                     ELSE IF a.Town # "" THEN <<a.Town>>
                     ELSE IF a.City # "" THEN <<a.City>>
                     ELSE IF a.Suburb # "" THEN <<a.Suburb>>
                     ELSE <<>>)
                 \o OneOf(a.County)
                 \o (IF a.State # "" THEN <<a.State>>
                     ELSE IF a.Province # "" THEN <<a.Province>>
                     ELSE IF a.Region # "" THEN <<a.Region>>
                     ELSE <<>>)
                 \o OneOf(a.Country)
         IN  IF Len(parts) = 0 THEN LocationUnknown ELSE Join(parts, ", ")

\* What DisplayStrike is handed: the strike and the label it prints for it.
DisplayStrike(strike, location) ==
    [strike |-> strike, label |-> FormatLocation(location)]

\* The locations handed to FormatLocation: nil, and a response with every
\* choice of empty and filled address fields; a filled field holds its name.
Locations ==
    {NilLocation} \cup
    {Response([Road |-> r, Village |-> v, Town |-> t, City |-> c, Suburb |-> u,
               County |-> y, State |-> s, Province |-> p, Region |-> g,
               Country |-> n]) :
        r \in {"", "Road"}, v \in {"", "Village"}, t \in {"", "Town"},
        c \in {"", "City"}, u \in {"", "Suburb"}, y \in {"", "County"},
        s \in {"", "State"}, p \in {"", "Province"}, g \in {"", "Region"},
        n \in {"", "Country"}}

\* DisplayStrike is called with the strike and the location at hand.
CallDisplayStrike ==
    /\ rd.pc = "display"
    /\ emitted' = Append(emitted, DisplayStrike(rd.strike, rd.location))
    /\ rd' = [rd EXCEPT !.pc = "idle"]
    /\ UNCHANGED <<framesLeft, log, lastRead, clock>>
    /\ UNCHANGED notReader

----------------------------------------------------------------------------
(* The peer and the lookup service, bounded *)

\* The frames the peer sends: two encoded documents (one of them with a run of
\* trailing spaces, so that its frame carries a code above 255), a cut-off
\* document and an empty frame.
PeerFrames ==
    {FrameOf(Encode(DocEmpty \o <<32, 32, 32>>)), FrameOf(Encode(DocAlt)),
     <<123>>, <<>>}

\* The responses of a successful lookup.
LookupResponses ==
    {Response([EmptyAddress EXCEPT !.Road = "Road", !.Country = "Country"]),
     Response(EmptyAddress)}

----------------------------------------------------------------------------
(* GeocodingService.ReverseGeocodeWithRateLimit *)

\* The seconds slept before the call returns: none when the lookup failed.
SleepAfterLookup(err) == IF err # Nil THEN 0 ELSE RateLimitDelay

----------------------------------------------------------------------------
(* WSClient.ReadMessages and processMessage *)

Canceled == Err("canceled", 0)

\* Message types: a data frame, a close frame, none (the read failed).
TextMessage == 1
CloseMessage == 8
NoFrame == 0 - 1

\* beforeStop (history): when the call returned, no stop had been requested.
\* seq, readLate (history): the arrival number of the frame held, and whether
\* the context was already cancelled when it was read.
RdIdle == [pc |-> "idle", result |-> Nil, strike |-> ZeroStrike, frame |-> <<>>,
           location |-> NilLocation, lookupErr |-> FALSE, timer |-> 0,
           beforeStop |-> FALSE, seq |-> 0, readLate |-> FALSE]

\* A loop that never looks at the context.
CtxDoneIgnored(cancelled) == FALSE

\* The select at the top of the loop: is ctx.Done() ready.
CtxDone(cancelled) == cancelled

\* websocket.IsUnexpectedCloseError(err, GoingAway, AbnormalClosure, NormalClosure)
IsUnexpectedCloseError(err) ==
    /\ err.kind = "close"
    /\ err.code \notin {CloseGoingAway, CloseAbnormalClosure, CloseNormalClosure}

\* A loop that takes an expired read deadline as "nothing yet" and reads again.
AfterReadRetriesTimeout(messageType, err) ==
    IF err # Nil
        THEN IF IsUnexpectedCloseError(err)
                THEN [returns |-> TRUE, err |-> Err("unexpected", err.code)]
             ELSE IF err.kind = "timeout"
                THEN [returns |-> FALSE, err |-> Nil]
             ELSE [returns |-> TRUE, err |-> err]
    ELSE IF messageType = CloseMessage
        THEN [returns |-> TRUE, err |-> Nil]
    ELSE [returns |-> FALSE, err |-> Nil]

\* Lines 102-117: what ReadMessages does with what conn.ReadMessage returned.
AfterRead(messageType, err) ==
    IF err # Nil
        THEN IF IsUnexpectedCloseError(err)
                THEN [returns |-> TRUE, err |-> Err("unexpected", err.code)]
                ELSE [returns |-> TRUE, err |-> err]
    ELSE IF messageType = CloseMessage
        THEN [returns |-> TRUE, err |-> Nil]
    ELSE [returns |-> FALSE, err |-> Nil]

\* A loop that gives up on the first frame it cannot process.
AfterProcessErrorReturns(err) == [returns |-> TRUE, err |-> err]

\* Lines 119-122: a processMessage error is logged and the loop continues.
AfterProcessError(err) == [returns |-> FALSE, err |-> Nil]

\* Lines 129-138 of processMessage: decode, then deserialize.
DecodeAndUnmarshal(message) ==
    LET d == Decode(message)
    IN  IF d.err THEN [err |-> Err("decode", 0), strike |-> ZeroStrike]
        ELSE LET u == Unmarshal(d.result)
             IN  IF ~u.ok THEN [err |-> Err("unmarshal", 0), strike |-> ZeroStrike]
                 ELSE [err |-> Nil, strike |-> u.strike]

\* A processMessage that gives up on the strike when its lookup fails.
AfterLookupDropsOnError(strike, location, err) ==
    [display |-> err = Nil, record |-> DisplayStrike(strike, location), err |-> err]

\* Lines 142-149: a failed lookup is logged, the strike is displayed with the
\* location the call returned (nil on failure) and processMessage returns nil.
AfterLookup(strike, location, err) ==
    [display |-> TRUE, record |-> DisplayStrike(strike, location), err |-> Nil]

RdActive == rd.pc \in {"entry", "top", "reading", "lookup", "sleep"}

\* ReadMessages returns err.
RdReturn(err) ==
    rd' = [rd EXCEPT !.pc = "returned", !.result = err, !.timer = 0,
                     !.beforeStop = (interrupt = 0 /\ ~ctxDone)]

\* Lines 89-91: the nil-conn check on entry.
RdEnter ==
    /\ rd.pc = "entry"
    /\ IF ws.conn = "nil" THEN RdReturn(ErrNotEstablished)
                          ELSE rd' = [rd EXCEPT !.pc = "top"]
    /\ UNCHANGED <<framesLeft, emitted, log, lastRead, clock>>
    /\ UNCHANGED notReader

\* Lines 94-98: return ctx.Err() when cancelled, else arm the read deadline and
\* block in ReadMessage.
RdLoopTop ==
    /\ rd.pc = "top"
    /\ IF CtxDone(ctxDone) THEN RdReturn(Canceled)
                           ELSE rd' = [rd EXCEPT !.pc = "reading", !.timer = ReadTimeout]
    /\ UNCHANGED <<framesLeft, emitted, log, lastRead, clock>>
    /\ UNCHANGED notReader

\* The lookup for the strike begins; clock notes its distance to the last one.
StartLookup ==
    clock' = [clock EXCEPT !.gap = clock.sinceCall, !.sinceCall = 0]

\* The log entry of a frame processMessage is done with: the frame, its arrival
\* number, the position of its record in emitted (0: none), whether its lookup
\* failed, whether the context was cancelled when it was read and when it was
\* done.
Finished(frame, seq, emitIdx, lookupErr, readLate) ==
    [frame |-> frame, seq |-> seq, emitIdx |-> emitIdx, lookupErr |-> lookupErr,
     readLate |-> readLate, doneLate |-> ctxDone]

\* A display that puts the newest record first.
EmitNewestFirst(record, lookupErr) ==
    /\ emitted' = <<record>> \o emitted
    /\ log' = Append(log, Finished(rd.frame, rd.seq, Len(emitted) + 1, lookupErr,
                                   rd.readLate))

\* The record is displayed and the frame is done.
Emit(record, lookupErr) ==
    /\ emitted' = Append(emitted, record)
    /\ log' = Append(log, Finished(rd.frame, rd.seq, Len(emitted) + 1, lookupErr,
                                   rd.readLate))

\* ReadMessage delivers a data frame: processMessage decodes and deserializes
\* it, and either fails (logged, next iteration) or starts the lookup.
RdReadFrame ==
    /\ rd.pc = "reading"
    /\ ~ws.closed
    /\ framesLeft > 0
    /\ \E f \in PeerFrames :
          LET a == AfterRead(TextMessage, Nil)
              p == DecodeAndUnmarshal(f)
          IN  /\ ~a.returns
              /\ lastRead' = [kind |-> "frame", code |-> 0]
              /\ framesLeft' = framesLeft - 1
              /\ IF p.err # Nil
                   THEN LET c == AfterProcessError(p.err)
                        IN  /\ IF c.returns THEN RdReturn(c.err)
                                            ELSE rd' = [rd EXCEPT !.pc = "top", !.timer = 0,
                                                                  !.frame = f]
                            /\ log' = Append(log, Finished(f, MaxFrames - framesLeft + 1,
                                                           0, FALSE, ctxDone))
                            /\ UNCHANGED <<emitted, clock>>
                   ELSE /\ rd' = [rd EXCEPT !.pc = "lookup", !.timer = 0, !.frame = f,
                                            !.strike = p.strike,
                                            !.seq = MaxFrames - framesLeft + 1,
                                            !.readLate = ctxDone]
                        /\ StartLookup
                        /\ UNCHANGED <<emitted, log>>
    /\ UNCHANGED notReader

\* ReadMessage fails: the peer's close (a CloseError with its code), a lost
\* connection, another I/O error, the read deadline, or a connection that
\* Close has closed under the read.
RdReadError ==
    /\ rd.pc = "reading"
    /\ \E e \in {Err("close", c) : c \in CloseCodes}
                \cup {Err("io", 0), Err("timeout", 0), Err("closed_conn", 0)} :
          /\ e.kind = "closed_conn" <=> ws.closed
          /\ e.kind = "timeout" => rd.timer = 0
          /\ lastRead' = e
          /\ LET a == AfterRead(NoFrame, e)
             IN  IF a.returns THEN RdReturn(a.err) ELSE rd' = [rd EXCEPT !.pc = "top"]
    /\ UNCHANGED <<framesLeft, emitted, log, clock>>
    /\ UNCHANGED notReader

\* ReverseGeocodeWithRateLimit returns: with an error at once, or with the
\* response after the rate-limit sleep has been started.
RdLookupReturns ==
    /\ rd.pc = "lookup"
    /\ \E err \in {Nil, Err("lookup", 0)} :
       \E resp \in (IF err = Nil THEN LookupResponses ELSE {NilLocation}) :
          IF SleepAfterLookup(err) > 0
            THEN /\ rd' = [rd EXCEPT !.pc = "sleep", !.timer = SleepAfterLookup(err),
                                     !.location = resp, !.lookupErr = FALSE]
                 /\ UNCHANGED <<emitted, log>>
            ELSE LET a == AfterLookup(rd.strike, resp, err)
                 IN  /\ rd' = [rd EXCEPT !.pc = "top", !.timer = 0, !.location = resp,
                                         !.lookupErr = (err # Nil)]
                     /\ IF a.display THEN Emit(a.record, err # Nil)
                        ELSE /\ log' = Append(log, Finished(rd.frame, rd.seq, 0, err # Nil,
                                                            rd.readLate))
                             /\ UNCHANGED emitted
    /\ UNCHANGED <<framesLeft, lastRead, clock>>
    /\ UNCHANGED notReader

\* The sleep is over: the lookup returns its response and the strike is displayed.
RdSleepDone ==
    /\ rd.pc = "sleep"
    /\ rd.timer = 0
    /\ LET a == AfterLookup(rd.strike, rd.location, Nil)
       IN  /\ rd' = [rd EXCEPT !.pc = "top"]
           /\ IF a.display THEN Emit(a.record, FALSE)
              ELSE /\ log' = Append(log, Finished(rd.frame, rd.seq, 0, FALSE,
                                                  rd.readLate))
                   /\ UNCHANGED emitted
    /\ UNCHANGED <<framesLeft, lastRead, clock>>
    /\ UNCHANGED notReader

----------------------------------------------------------------------------
(* Client.Run *)

\* connects, sent, closes (history): the Connect calls made, the payloads handed
\* to SendMessage with their outcome, the Close calls made.
RunIdle == [pc |-> "idle", result |-> Nil, stopped |-> FALSE, timer |-> 0,
            closes |-> 0, connects |-> 0, sent |-> <<>>]

\* initMessage: {"a":111}
InitMessage == <<123, 34, 97, 34, 58, 49, 49, 49, 125>>

\* A Run for which only an unexpected close code is fatal.
ReadResultOnlyUnexpected(err) ==
    IF err.kind = "unexpected" THEN Err("read", err.code) ELSE Nil

\* Line 71-73: the error Run returns for what it received on readErr before
\* any interrupt.
ReadResult(err) ==
    IF err # Nil /\ err # Canceled THEN Err("read", err.code) ELSE Nil

\* An interrupt branch that hands back whatever the read activity reported.
GraceResultPropagates(err) == IF err # Nil THEN Err("read", err.code) ELSE Nil

\* Lines 80-87: after an interrupt Run returns nil, whatever it received.
GraceResult(err) == Nil

\* A return that leaves the session as it is.
RunReturnNoClose(result) ==
    /\ ws' = ws
    /\ ctxDone' = TRUE
    /\ run' = [run EXCEPT !.pc = "returned", !.result = result, !.timer = 0]

\* Run returns result: the deferred cancel() and ws.Close() run first.
RunReturnClosing(result) ==
    \E transportOk \in BOOLEAN :
        /\ ws' = Close(ws, transportOk).ws
        /\ ctxDone' = TRUE
        /\ run' = [run EXCEPT !.pc = "returned", !.result = result, !.timer = 0,
                              !.closes = run.closes + 1]

\* Line 39-41: Connect; its failure is returned before any defer is set.
RunConnect ==
    /\ run.pc = "connect"
    /\ \E dialOk \in BOOLEAN :
          LET r == Connect(ws, dialOk)
          IN  /\ ws' = r.ws
              /\ run' = IF r.err # Nil
                          THEN [run EXCEPT !.pc = "returned", !.result = r.err,
                                           !.connects = run.connects + 1]
                          ELSE [run EXCEPT !.pc = "send",
                                           !.connects = run.connects + 1]
    /\ UNCHANGED <<ctxDone, interrupt, readErr, rd>>
    /\ UNCHANGED notRun

\* A Run that sends the initial message again when the send has failed.
RunSendRetries ==
    /\ run.pc = "send"
    /\ \E transportOk \in BOOLEAN :
          LET r == SendMessage(ws, transportOk)
              sent == Append(run.sent, [payload |-> InitMessage, ok |-> r.err = Nil])
          IN  IF r.err # Nil
                THEN /\ ws' = r.ws
                     /\ run' = [run EXCEPT !.sent = sent]
                     /\ UNCHANGED <<ctxDone, rd>>
                ELSE /\ ws' = r.ws
                     /\ run' = [run EXCEPT !.pc = "select", !.sent = sent]
                     /\ ctxDone' = FALSE
                     /\ rd' = [RdIdle EXCEPT !.pc = "entry"]
    /\ UNCHANGED <<interrupt, readErr>>
    /\ UNCHANGED notRun

\* Lines 45-66: send the initial message; on failure return (closing), else
\* create the context and the channels and start the read goroutine.
RunSendAndStart ==
    /\ run.pc = "send"
    /\ \E transportOk \in BOOLEAN :
          LET r == SendMessage(ws, transportOk)
              sent == Append(run.sent, [payload |-> InitMessage, ok |-> r.err = Nil])
          IN  IF r.err # Nil
                THEN /\ \E closeOk \in BOOLEAN : ws' = Close(r.ws, closeOk).ws
                     /\ run' = [run EXCEPT !.pc = "returned", !.result = Err("send", 0),
                                           !.closes = run.closes + 1, !.sent = sent]
                     /\ UNCHANGED <<ctxDone, rd>>
                ELSE /\ ws' = r.ws
                     /\ run' = [run EXCEPT !.pc = "select", !.sent = sent]
                     /\ ctxDone' = FALSE
                     /\ rd' = [RdIdle EXCEPT !.pc = "entry"]
    /\ UNCHANGED <<interrupt, readErr>>
    /\ UNCHANGED notRun

\* os.Interrupt or SIGTERM is delivered to the interrupt channel; clock starts
\* to count the time since this stop request.
Signal ==
    /\ run.pc = "select"
    /\ interrupt = 0
    /\ interrupt' = 1
    /\ clock' = [clock EXCEPT !.sinceStop = 0]
    /\ UNCHANGED <<ws, run, ctxDone, readErr, rd>>
    /\ UNCHANGED <<dec, plain, calls, sessionOpen, framesLeft, emitted, log, lastRead>>

\* Lines 70-74: the read activity reported first.
RunReceivesReadErr ==
    /\ run.pc = "select"
    /\ Len(readErr) > 0
    /\ readErr' = Tail(readErr)
    /\ RunReturnClosing(ReadResult(Head(readErr)))
    /\ UNCHANGED <<interrupt, rd>>
    /\ UNCHANGED notRun

\* Lines 75-77: the interrupt was received: cancel the context, start to wait.
RunInterrupted ==
    /\ run.pc = "select"
    /\ interrupt > 0
    /\ interrupt' = interrupt - 1
    /\ ctxDone' = TRUE
    /\ run' = [run EXCEPT !.pc = "grace", !.stopped = TRUE, !.timer = GraceWindow]
    /\ UNCHANGED <<ws, readErr, rd>>
    /\ UNCHANGED notRun

\* Line 81: the read activity reported within the grace window.
RunGraceReceives ==
    /\ run.pc = "grace"
    /\ Len(readErr) > 0
    /\ readErr' = Tail(readErr)
    /\ RunReturnClosing(GraceResult(Head(readErr)))
    /\ UNCHANGED <<interrupt, rd>>
    /\ UNCHANGED notRun

\* A grace wait with no timeout case.
GraceNeverExpires(timer) == FALSE

\* Line 82: the channel of time.After(5 * time.Second) is ready.
GraceExpired(timer) == timer = 0

\* Lines 82-83: the grace window ran out.
RunGraceTimeout ==
    /\ run.pc = "grace"
    /\ GraceExpired(run.timer)
    /\ RunReturnClosing(Nil)
    /\ UNCHANGED <<interrupt, readErr, rd>>
    /\ UNCHANGED notRun

\* A readErr channel made without a buffer: a send needs Run waiting to receive.
CanSendUnbuffered(ch) == Len(ch) < 1 /\ run.pc \in {"select", "grace"}

\* Line 59: readErr is made with capacity 1; a send goes through while the
\* buffer is not full.
CanSend(ch) == Len(ch) < 1

\* Line 63: the goroutine sends what ReadMessages returned on readErr.
GoSendReadErr ==
    /\ rd.pc = "returned"
    /\ CanSend(readErr)
    /\ readErr' = Append(readErr, rd.result)
    /\ rd' = [rd EXCEPT !.pc = "done"]
    /\ UNCHANGED <<ws, run, ctxDone, interrupt>>
    /\ UNCHANGED notRun

----------------------------------------------------------------------------
(* Time *)

\* Longest time the model follows after a cancellation; the time since a stop
\* request is followed up to one second past the grace window.
CancelHorizon == ReadTimeout + HTTPTimeout + RateLimitDelay + 1

ClockIdle == [sinceCall |-> 0 - 1, gap |-> 0 - 1, sinceCancel |-> 0,
              sinceStop |-> 0 - 1]

\* A step that takes no time is due: time does not pass over it.
RdDue ==
    \/ rd.pc \in {"entry", "top"}
    \/ rd.pc = "reading" /\ (rd.timer = 0 \/ ws.closed)
    \/ rd.pc = "lookup" /\ rd.timer = HTTPTimeout
    \/ rd.pc = "sleep" /\ rd.timer = 0

RunDue ==
    \/ run.pc \in {"connect", "send"}
    \/ run.pc = "select" /\ (Len(readErr) > 0 \/ interrupt > 0)
    \/ run.pc = "grace" /\ (Len(readErr) > 0 \/ GraceExpired(run.timer))
    \/ rd.pc = "returned" /\ run.pc # "idle"

\* One second passes: running timers move, the history clocks advance.
Tick ==
    /\ ~RdDue
    /\ ~RunDue
    /\ rd.pc \in {"reading", "lookup", "sleep"} \/ run.pc = "grace"
    /\ rd' = IF rd.pc \in {"reading", "sleep"} THEN [rd EXCEPT !.timer = rd.timer - 1]
             ELSE IF rd.pc = "lookup" THEN [rd EXCEPT !.timer = rd.timer + 1]
             ELSE rd
    /\ run' = IF run.pc = "grace" /\ run.timer > 0
                THEN [run EXCEPT !.timer = run.timer - 1] ELSE run
    /\ clock' = [clock EXCEPT
                   !.sinceCall = IF clock.sinceCall >= 0 /\ clock.sinceCall < RateLimitDelay
                                   THEN clock.sinceCall + 1 ELSE clock.sinceCall,
                   !.sinceCancel = IF ctxDone /\ RdActive /\ clock.sinceCancel < CancelHorizon
                                     THEN clock.sinceCancel + 1 ELSE clock.sinceCancel,
                   !.sinceStop = IF /\ clock.sinceStop >= 0
                                    /\ run.pc \in {"select", "grace"}
                                    /\ clock.sinceStop <= GraceWindow
                                   THEN clock.sinceStop + 1 ELSE clock.sinceStop]
    /\ UNCHANGED <<ws, ctxDone, interrupt, readErr, framesLeft, emitted, log, lastRead>>
    /\ UNCHANGED <<decVars, sessVars>>

\* The caller of ReadMessages cancels the context.
CallerCancels ==
    /\ ~ctxDone
    /\ RdActive
    /\ ctxDone' = TRUE
    /\ UNCHANGED <<ws, run, interrupt, readErr, rdVars, clock>>
    /\ UNCHANGED <<decVars, sessVars>>

----------------------------------------------------------------------------
(* Claims about Decode *)

\* C2 (amended): on the frame whose symbols are [65, 66, 256] the third symbol
\* finds code 256 already registered as "AB" (no fallback) and Decode returns
\* "ABAB" with no error; the self-reference fallback is the third symbol of
\* [65, 66, 257], which decodes to "ABBB" with no error.
C2_KnownCodeThenFallback ==
    /\ (dec.pc = "done" /\ dec.data = <<65, 66, 256>>) =>
          /\ DecReturned = [result |-> <<65, 66, 65, 66>>, err |-> FALSE]
          /\ dec.st.trace = <<"seed", "known">>
    /\ (dec.pc = "done" /\ dec.data = <<65, 66, 257>>) =>
          /\ DecReturned = [result |-> <<65, 66, 66, 66>>, err |-> FALSE]
          /\ dec.st.trace = <<"seed", "fallback">>

C2_Witness ==
    /\ dec.pc = "done"
    /\ dec.data = <<65, 66, 256>>
    /\ dec.st.trace = <<"seed", "known">>

\* C2 as stated: [65, 66, 256] takes the fallback on its third symbol and
\* decodes to "ABBB".
C2_Original ==
    (dec.pc = "done" /\ dec.data = <<65, 66, 256>>) =>
        /\ DecReturned = [result |-> <<65, 66, 66, 66>>, err |-> FALSE]
        /\ dec.st.trace = <<"seed", "fallback">>

\* C7 as stated: decoding the frame the matching encoder produced for payload
\* x returns exactly x, with no error, for every x over the payload alphabet.
C7_RoundTrip ==
    (dec.pc = "done" /\ plain.given) =>
        DecReturned = [result |-> plain.x, err |-> FALSE]

\* The round trip restricted to payloads of bytes below 128.
RoundTripAscii ==
    (dec.pc = "done" /\ plain.given /\ \A k \in 1..Len(plain.x) : plain.x[k] < 128) =>
        DecReturned = [result |-> plain.x, err |-> FALSE]

\* C16: Decode of the empty frame returns the empty payload and no error, and
\* neither seeds a dictionary nor registers an entry.
C16_EmptyFrameDecodesEmpty ==
    (dec.pc = "done" /\ Len(dec.frame) = 0) =>
        /\ DecReturned = [result |-> <<>>, err |-> FALSE]
        /\ Len(DecReturned.result) = 0
        /\ dec.st.dict = <<>>
        /\ dec.st.code = 0
        /\ dec.st.trace = <<>>

C16_Witness ==
    /\ dec.pc = "done"
    /\ dec.frame = <<>>
    /\ dec.data = <<>>
    /\ DecReturned.result = <<>>

\* C17 as stated: Decode of a frame holding the single symbol s returns the one
\* byte s, for every s, and registers no entry.
C17_SingleSymbolIsItsByte ==
    (dec.pc = "done" /\ Len(dec.data) = 1) =>
        /\ DecReturned = [result |-> <<dec.data[1]>>, err |-> FALSE]
        /\ dec.st.dict = SeedDict
        /\ dec.st.code = 256

\* C17 (amended): Decode of a frame holding the single symbol s returns exactly
\* one byte and no error: s itself when s is at most 255, and the low eight bits
\* of s when s is above 255; it registers no entry.
C17_SingleSymbolIsItsLowByte ==
    (dec.pc = "done" /\ Len(dec.data) = 1) =>
        LET sym == dec.data[1]
        IN  /\ ~DecReturned.err
            /\ Len(DecReturned.result) = 1
            /\ sym <= 255 => DecReturned.result[1] = sym
            /\ sym > 255 => DecReturned.result[1] = sym - 256 * (sym \div 256)
            /\ dec.st.dict = SeedDict
            /\ dec.st.code = 256
            /\ Additions(dec.st) = <<>>

C17_Witness ==
    /\ dec.pc = "done"
    /\ dec.data = <<256>>
    /\ DecReturned = [result |-> <<0>>, err |-> FALSE]
    /\ dec.st.code = 256

\* The calls finished on the decoder so far.
DecFinished == IF dec.pc = "done" THEN Append(dec.past, DecSummary) ELSE dec.past

\* C18: any two calls on the same frame return the same payload and error and
\* register the same entries in the same order, whatever was decoded between
\* them on the same decoder.
C18_DecodeStateless ==
    \A j, k \in 1..Len(DecFinished) :
        DecFinished[j].frame = DecFinished[k].frame =>
            /\ DecFinished[j].returned = DecFinished[k].returned
            /\ DecFinished[j].added = DecFinished[k].added
            /\ DecFinished[j].trace = DecFinished[k].trace

C18_Witness ==
    /\ dec.pc = "done"
    /\ Len(dec.past) = 2
    /\ dec.past[1].frame = dec.frame
    /\ dec.past[2].frame # dec.frame
    /\ Len(dec.past[2].added) = 2
    /\ Len(DecSummary.added) = 2
    /\ DecSummary.trace = <<"seed", "fallback">>

\* The step consumes a symbol below 256.
SeedSymbolStep == dec.pc = "loop" /\ dec'.i = dec.i + 1 /\ dec.data[dec.i] < 256

\* C20 as stated: for every symbol after the first whose code c is below 256,
\* 128 to 255 included, Decode appends exactly the one byte c to the output and
\* registers the previous entry followed by that byte c.
C20_SeedSymbolAppendsItsByte ==
    [][SeedSymbolStep =>
         /\ dec'.st.result = Append(dec.st.result, dec.data[dec.i])
         /\ dec'.st.dict[dec.st.code] = Append(dec.st.prev, dec.data[dec.i])]_vars

\* The same for codes below 128 only.
SeedSymbolBelow128 ==
    [][(SeedSymbolStep /\ dec.data[dec.i] < 128) =>
         /\ dec'.st.result = Append(dec.st.result, dec.data[dec.i])
         /\ dec'.st.dict[dec.st.code] = Append(dec.st.prev, dec.data[dec.i])]_vars

\* The step processes the symbol at position dec.i and Decode goes on.
SymbolStep == dec.pc = "loop" /\ dec'.i = dec.i + 1 /\ ~dec'.st.err

\* C21 as stated: after the k-th symbol (k >= 2) the dictionary holds exactly
\* the codes 0..255 and 256..256+k-2, the entry added at that step is previous
\* followed by the first byte of the current entry, and no entry assigned
\* before is changed or removed.
C21_DictAppendOnly ==
    [][SymbolStep =>
         /\ DOMAIN dec'.st.dict = 0..(256 + dec.i - 2)
         /\ dec'.st.dict[256 + dec.i - 2] = Append(dec.st.prev, dec'.st.prev[1])
         /\ \A c \in DOMAIN dec.st.dict : dec'.st.dict[c] = dec.st.dict[c]]_vars

\* The same without the value of the added entry: one new code per symbol, the
\* next unused one, and nothing assigned before is changed or removed.
DictGrowsByOne ==
    [][SymbolStep =>
         /\ DOMAIN dec'.st.dict = 0..(256 + dec.i - 2)
         /\ dec'.st.code = dec.st.code + 1
         /\ \A c \in DOMAIN dec.st.dict : dec'.st.dict[c] = dec.st.dict[c]]_vars

\* The step takes the self-reference fallback.
FallbackStep ==
    /\ SymbolStep
    /\ SelectEntry(dec.st, dec.data[dec.i]).branch = "fallback"

\* C22 as stated: a symbol that takes the self-reference fallback has exactly
\* the next unused code; a code above it never takes the fallback.
C22_FallbackOnlyOnNextCode ==
    [][FallbackStep => dec.data[dec.i] = dec.st.code]_vars

\* The fallback is taken by no code below the next unused one.
FallbackNeverBelowNextCode ==
    [][FallbackStep => dec.data[dec.i] >= dec.st.code]_vars

\* C25: in every Decode call on a non-empty frame, previous is non-empty at
\* every loop iteration, every entry appended or registered is non-empty, the
\* empty-previous error is never raised and Decode returns no error.
C25_DecodeNeverFails ==
    /\ dec.pc \in {"loop", "done"} /\ Len(dec.frame) > 0 =>
          /\ Len(dec.st.prev) > 0
          /\ ~dec.st.err
          /\ \A k \in 1..Len(Additions(dec.st)) : Len(Additions(dec.st)[k]) > 0
          /\ Len(dec.st.result) >= Len(dec.st.trace) + 1
    /\ dec.pc = "done" => ~DecReturned.err

C25_Witness ==
    /\ dec.pc = "done"
    /\ dec.data = <<65, 257, 66>>
    /\ dec.st.trace = <<"fallback", "seed">>
    /\ ~DecReturned.err

----------------------------------------------------------------------------
(* Claims about the location label *)

NonEmpty(x) == x # ""

FirstNonEmpty(fields) ==
    IF \E i \in 1..Len(fields) : fields[i] # ""
        THEN fields[CHOOSE i \in 1..Len(fields) :
                        fields[i] # "" /\ \A j \in 1..(i - 1) : fields[j] = ""]
        ELSE ""

\* The parts of a label, without the separators between them.
PartsOf(label) == [k \in 1..((Len(label) + 1) \div 2) |-> label[2 * k - 1]]

\* The location DisplayStrike was called with has been formatted.
Labelled == rd.pc = "idle" /\ Len(emitted) = 1

\* C19 as stated: the label is the first non-empty of road, settlement field
\* and admin field, followed by the country if present; it is the sentinel
\* when the location is absent or has none of these fields.
C19_LabelIsFirstNonEmpty ==
    Labelled => emitted[1].label = FormatLocationFirstOnly(rd.location)

\* C19 (amended): the label holds every one of these that is non-empty, in
\* this order and joined by ", ": the road; the first non-empty of village,
\* town, city, suburb; the county; the first non-empty of state, province,
\* region; the country.  It is "Location unknown" exactly when the location is
\* nil or none of the ten fields is filled.
C19_LabelIsEveryNonEmptyGroup ==
    Labelled =>
        LET a == rd.location.Address
            label == emitted[1].label
            groups == <<a.Road,
                        FirstNonEmpty(<<a.Village, a.Town, a.City, a.Suburb>>),
                        a.County,
                        FirstNonEmpty(<<a.State, a.Province, a.Region>>),
                        a.Country>>
            chosen == SelectSeq(groups, NonEmpty)
        IN  /\ label = LocationUnknown <=> (rd.location.isNil \/ chosen = <<>>)
            /\ label # LocationUnknown =>
                  /\ PartsOf(label) = chosen
                  /\ Len(label) = 2 * Len(chosen) - 1
                  /\ \A k \in 1..(Len(chosen) - 1) : label[2 * k] = ", "

C19_Witness ==
    /\ Labelled
    /\ rd.location.Address.Road = "Road"
    /\ rd.location.Address.Village = ""
    /\ rd.location.Address.Town = "Town"
    /\ rd.location.Address.City = "City"
    /\ emitted[1].label = <<"Road", ", ", "Town", ", ", "County", ", ",
                            "Province", ", ", "Country">>

----------------------------------------------------------------------------
(* Claims about the session *)

\* C4 as stated: every Close call, from any session state, returns no error.
C4_CloseNeverErrors ==
    \A k \in 1..Len(calls) : calls[k].op = "Close" => calls[k].err = Nil

\* Close returns no error whenever the connection was not closed before.
CloseOnceNeverErrors ==
    \A k \in 1..Len(calls) :
        (calls[k].op = "Close"
         /\ \A j \in 1..(k-1) : calls[j].op = "Close" =>
                \E i \in (j+1)..(k-1) : calls[i].op = "Connect" /\ calls[i].err = Nil)
        => calls[k].err = Nil

\* C10 as stated: SendMessage called while the session is not open fails with
\* the not-established error and attempts no write.
C10_SendNotOpenFails ==
    \A k \in 1..Len(calls) :
        (calls[k].op = "SendMessage" /\ ~calls[k].open) =>
            /\ calls[k].err = ErrNotEstablished
            /\ ~calls[k].wrote

\* SendMessage on a WSClient whose conn is nil: not-established, no write.
SendOnNilConnFails ==
    \A k \in 1..Len(calls) :
        (calls[k].op = "SendMessage" /\ calls[k].conn = "nil") =>
            /\ calls[k].err = ErrNotEstablished
            /\ ~calls[k].wrote

\* SendMessage while not open always fails, with one error or the other.
SendNotOpenAlwaysFails ==
    \A k \in 1..Len(calls) :
        (calls[k].op = "SendMessage" /\ ~calls[k].open) => calls[k].err # Nil

----------------------------------------------------------------------------
(* Claims about the read loop and Client.Run *)

RdEnded == rd.pc \in {"returned", "done"}

\* C1 as stated: when the peer closes with normal closure or going away and no
\* stop was requested, ReadMessages ends with no error and Run returns nil.
C1_CleanCloseSucceeds ==
    (/\ RdEnded
     /\ lastRead.kind = "close"
     /\ lastRead.code \in {CloseNormalClosure, CloseGoingAway}
     /\ ~run.stopped)
    => /\ rd.result = Nil
       /\ run.pc = "returned" => run.result = Nil

\* C3 as stated: at least RateLimitDelay passes between the starts of two
\* consecutive lookups.
C3_LookupsSpaced == clock.gap = 0 - 1 \/ clock.gap >= RateLimitDelay

\* C5: when Run has taken the interrupt and ReadMessages ended with the
\* cancellation error, Run returns nil.
C5_CancelledRunReturnsNil ==
    (run.pc = "returned" /\ run.stopped /\ RdEnded /\ rd.result = Canceled)
    => run.result = Nil

C5_Witness ==
    /\ run.pc = "returned"
    /\ run.stopped
    /\ rd.pc = "done"
    /\ rd.result = Canceled
    /\ readErr = <<>>
    /\ run.result = Nil

\* C6 as stated: once cancellation is requested, ReadMessages ends within
\* ReadTimeout, whatever it was doing.
C6_EndsWithinReadTimeout ==
    (ctxDone /\ RdActive) => clock.sinceCancel <= ReadTimeout

\* C6 (amended): once cancellation is requested, ReadMessages ends within
\* ReadTimeout + HTTPTimeout + RateLimitDelay: the read in progress may still
\* deliver a frame until its deadline, and that frame is processed to the end
\* (lookup, sleep, display) before the loop looks at the context again.
C6_EndsWithinReadAndProcessing ==
    (ctxDone /\ RdActive) =>
        clock.sinceCancel <= ReadTimeout + HTTPTimeout + RateLimitDelay

C6_Witness ==
    /\ ctxDone
    /\ rd.pc = "returned"
    /\ rd.result = Canceled
    /\ clock.sinceCancel = ReadTimeout + HTTPTimeout + RateLimitDelay

Valid(f) == DecodeAndUnmarshal(f).err = Nil

\* The step finishes a frame by dropping it.
DropsFrame ==
    /\ Len(log') = Len(log) + 1
    /\ log'[Len(log')].emitIdx = 0

\* C8: a frame that fails to decode or to deserialize is dropped and the loop
\* goes on to its next iteration, emitting nothing for it; every frame that
\* decodes and deserializes is emitted, whatever was dropped before it.
C8_BadFrameDroppedLoopContinues ==
    /\ [](\A k \in 1..Len(log) :
            /\ ~Valid(log[k].frame) <=> log[k].emitIdx = 0
            /\ log[k].emitIdx > 0 =>
                 /\ log[k].emitIdx <= Len(emitted)
                 /\ emitted[log[k].emitIdx].strike
                      = DecodeAndUnmarshal(log[k].frame).strike)
    /\ [][DropsFrame => (rd'.pc = "top" /\ emitted' = emitted)]_vars

C8_Witness ==
    \E j, k \in 1..Len(log) :
        /\ j < k
        /\ ~Valid(log[j].frame)
        /\ log[j].emitIdx = 0
        /\ Valid(log[k].frame)
        /\ log[k].emitIdx = Len(emitted)

\* The step finishes a frame whose lookup failed.
LookupFails ==
    /\ rd.pc = "lookup"
    /\ Len(log') = Len(log) + 1
    /\ log'[Len(log')].lookupErr

\* C9: when the lookup fails the record is emitted once, with the label
\* "Location unknown" and the strike exactly as deserialized, and the loop goes
\* on to its next iteration.
C9_LookupFailureStillEmits ==
    /\ [](/\ \A k \in 1..Len(log) :
               log[k].lookupErr =>
                  /\ log[k].emitIdx \in 1..Len(emitted)
                  /\ emitted[log[k].emitIdx] =
                        [strike |-> DecodeAndUnmarshal(log[k].frame).strike,
                         label  |-> LocationUnknown]
          /\ \A j, k \in 1..Len(log) :
               (j # k /\ log[j].emitIdx > 0) => log[j].emitIdx # log[k].emitIdx
          /\ Len(emitted) = Cardinality({k \in 1..Len(log) : log[k].emitIdx > 0}))
    /\ [][LookupFails => (rd'.pc = "top" /\ Len(emitted') = Len(emitted) + 1)]_vars

C9_Witness ==
    \E k \in 1..Len(log) :
        /\ log[k].lookupErr
        /\ log[k].emitIdx > 0
        /\ emitted[log[k].emitIdx].label = LocationUnknown
        /\ emitted[log[k].emitIdx].strike.Alt = 1

\* C11: whenever Run has returned after a successful Connect (the session holds
\* a connection), Close was invoked exactly once on the way out and the
\* connection is closed: after a failed subscribe send, after the read activity
\* reported, and after an interrupt whether the read activity reported within
\* the grace window or not.
C11_CloseBeforeReturn ==
    (run.pc = "returned" /\ ws.conn = "set") => (run.closes = 1 /\ ws.closed)

C11_Witness ==
    /\ run.pc = "returned"
    /\ run.stopped
    /\ rd.pc = "reading"
    /\ run.closes = 1
    /\ ws.closed

\* The last read failed with an unexpected close code or an I/O error.
FatalRead ==
    \/ lastRead.kind = "io"
    \/ lastRead.kind = "close" /\ IsUnexpectedCloseError(lastRead)

\* C12 as stated: when ReadMessages ended before any stop request, Run returns
\* a non-nil error if the cause was an unexpected close code or an I/O error,
\* and returns nil only if ReadMessages returned nil or the cancellation error.
C12_EarlyReadErrorIsFatal ==
    (run.pc = "returned" /\ rd.pc = "done" /\ rd.beforeStop) =>
        /\ FatalRead => run.result # Nil
        /\ run.result = Nil => rd.result \in {Nil, Canceled}

\* C12 (amended): when Run receives what ReadMessages returned in its first
\* select (it has taken no stop request), it returns a non-nil "read error" if
\* the cause was an unexpected close code or an I/O error, and it returns nil
\* exactly when ReadMessages returned nil or the cancellation error.  A stop
\* request that is pending together with the terminal value may be taken
\* instead, and Run then returns nil.
C12_ReceivedReadErrorIsFatal ==
    (run.pc = "returned" /\ rd.pc = "done" /\ ~run.stopped) =>
        /\ FatalRead => run.result = Err("read", lastRead.code)
        /\ run.result = Nil <=> rd.result \in {Nil, Canceled}

C12_Witness ==
    /\ run.pc = "returned"
    /\ ~run.stopped
    /\ rd.pc = "done"
    /\ rd.beforeStop
    /\ lastRead = Err("io", 0)
    /\ run.result = Err("read", 0)

\* Run has returned the error of a failed Connect.
ConnectFailed == run.pc = "returned" /\ run.result.kind = "connect"

\* C13: a failed Connect stores no connection and Run returns its error at
\* once: nothing was sent, ReadMessages was never started, Close was not
\* invoked, and no step of the program follows.
C13_FailedConnectReturnsAtOnce ==
    /\ [](ConnectFailed =>
            /\ ws = NewWSClient
            /\ rd = RdIdle
            /\ run.closes = 0
            /\ ~ctxDone
            /\ readErr = <<>>
            /\ framesLeft = MaxFrames
            /\ lastRead = Nil
            /\ emitted = <<>>)
    /\ [][(run.pc = "connect" /\ ws'.conn = "nil") => ConnectFailed']_vars
    /\ [][~ConnectFailed]_vars

C13_Witness ==
    /\ ConnectFailed
    /\ run.result = Err("connect", 0)
    /\ ws.conn = "nil"
    /\ rd.pc = "idle"

\* C14: once a stop request has arrived Run is gone within GraceWindow: the
\* time since the request never passes GraceWindow while Run is running; Run
\* waits only with the context cancelled; and having taken the request it
\* returns nil with the session closed, also when ReadMessages is still running.
C14_ReturnsWithinGrace ==
    /\ clock.sinceStop <= GraceWindow
    /\ run.pc = "grace" => (ctxDone /\ run.timer = GraceWindow - clock.sinceStop)
    /\ (run.pc = "returned" /\ run.stopped) =>
            (run.result = Nil /\ run.closes = 1 /\ ws.closed)

C14_Witness ==
    /\ run.pc = "returned"
    /\ run.stopped
    /\ RdActive
    /\ clock.sinceStop = GraceWindow
    /\ run.result = Nil
    /\ ws.closed

\* Run has closed the session while ReadMessages is blocked in ReadMessage.
ClosedUnderRead == run.pc = "returned" /\ run.closes > 0 /\ rd.pc = "reading"

\* C15: when Run closes the session while ReadMessages is blocked in a read,
\* Close returns (Run reaches its return), the blocked read fails with the
\* closed-connection error and ReadMessages returns that error.
C15_CloseUnblocksRead ==
    /\ [][(rd.pc = "reading" /\ run'.closes > run.closes) => run'.pc = "returned"]_vars
    /\ [][(ClosedUnderRead /\ rd' # rd) =>
             (rd'.pc = "returned" /\ rd'.result = Err("closed_conn", 0))]_vars
    /\ ClosedUnderRead ~> (rd.pc = "returned" /\ lastRead.kind = "closed_conn")

C15_Witness ==
    /\ run.pc = "returned"
    /\ run.stopped
    /\ ws.closed
    /\ rd.pc = "returned"
    /\ rd.result = Err("closed_conn", 0)

\* A frame has been read and processMessage is not done with it.
InFlight == rd.pc \in {"lookup", "sleep"}

\* The frames ReadMessage has delivered so far.
FramesRead == MaxFrames - framesLeft

\* C23: frames are processed one at a time and in arrival order: at most one
\* frame is in processing, no frame is read while one is, the frames are done
\* in the order they arrived, and the records appear in emitted in that order,
\* each holding the strike of its own frame.
C23_OneFrameAtATimeInOrder ==
    /\ [](/\ FramesRead - Len(log) = (IF InFlight THEN 1 ELSE 0)
          /\ \A k \in 1..Len(log) : log[k].seq = k
          /\ InFlight => rd.seq = FramesRead
          /\ \A k \in 1..Len(log) :
                log[k].emitIdx > 0 =>
                   /\ log[k].emitIdx <= Len(emitted)
                   /\ emitted[log[k].emitIdx].strike
                        = DecodeAndUnmarshal(log[k].frame).strike
          /\ \A j, k \in 1..Len(log) :
                (j < k /\ log[j].emitIdx > 0 /\ log[k].emitIdx > 0) =>
                    log[j].emitIdx < log[k].emitIdx)
    /\ [][framesLeft' < framesLeft => (~InFlight /\ Len(log) = FramesRead)]_vars

C23_Witness ==
    /\ Len(log) = 2
    /\ log[1].frame # log[2].frame
    /\ log[1].emitIdx = 1
    /\ log[2].emitIdx = 2
    /\ emitted[1].strike # emitted[2].strike
    /\ emitted[2].strike.Alt = 1

ReaderStarted == rd.pc # "idle"

\* C24: Run makes one Connect call, then, if it succeeded, one SendMessage call
\* with the payload {"a":111}, then starts ReadMessages only if that send
\* succeeded; nothing is read before, and neither call is made a second time.
C24_ConnectSendRead ==
    /\ run.connects <= 1
    /\ Len(run.sent) <= 1
    /\ \A k \in 1..Len(run.sent) : run.sent[k].payload = InitMessage
    /\ run.pc = "connect" <=> run.connects = 0
    /\ Len(run.sent) = 1 => (run.connects = 1 /\ ws.conn = "set")
    /\ (ws.conn = "set" /\ run.pc # "send") => Len(run.sent) = 1
    /\ ReaderStarted <=> (Len(run.sent) = 1 /\ run.sent[1].ok)
    /\ (FramesRead > 0 \/ lastRead # Nil \/ Len(log) > 0) => ReaderStarted

C24_Witness ==
    /\ run.connects = 1
    /\ run.sent = <<[payload |-> InitMessage, ok |-> TRUE]>>
    /\ FramesRead = 2
    /\ Len(emitted) = 2

\* C26: the read goroutine sends exactly one value on readErr, what
\* ReadMessages returned, and the send can always be made: the channel holds
\* at most one value and is empty whenever ReadMessages has returned, also when
\* Run has already returned after the grace timeout.
C26_OneSendNeverBlocks ==
    /\ [](Len(readErr) <= 1)
    /\ [](rd.pc = "returned" => ENABLED GoSendReadErr)
    /\ [][Len(readErr') > Len(readErr) =>
             (rd.pc = "returned" /\ rd'.pc = "done" /\ readErr' = <<rd.result>>)]_vars
    /\ [][rd.pc = "done" => rd' = rd]_vars

C26_Witness ==
    /\ run.pc = "returned"
    /\ run.stopped
    /\ clock.sinceStop = GraceWindow
    /\ rd.pc = "done"
    /\ readErr = <<Err("closed_conn", 0)>>

\* No stop was requested in this run.
NoStopRequested == clock.sinceStop = 0 - 1

\* C27: a read that meets its deadline, ReadTimeout after it began, ends
\* ReadMessages with the timeout error, with no further read; if no stop was
\* requested, Run returns it as a "read error".
C27_ReadDeadlineIsFatal ==
    /\ [][(rd.pc = "reading" /\ rd' # rd /\ lastRead'.kind = "timeout") =>
             /\ rd.timer = 0
             /\ rd'.pc = "returned"
             /\ rd'.result = Err("timeout", 0)
             /\ framesLeft' = framesLeft]_vars
    /\ [](lastRead.kind = "timeout" => (RdEnded /\ rd.result = Err("timeout", 0)))
    /\ []((run.pc = "returned" /\ lastRead.kind = "timeout" /\ NoStopRequested)
            => run.result = Err("read", 0))

C27_Witness ==
    /\ run.pc = "returned"
    /\ NoStopRequested
    /\ lastRead = Err("timeout", 0)
    /\ FramesRead = 0
    /\ run.result = Err("read", 0)

\* C28: once Run has taken a stop request it returns nil, whatever
\* ReadMessages reports during the grace window; Run returns a "read error"
\* only when it received the value without having taken a stop request.
C28_StoppedRunReturnsNil ==
    /\ (run.pc = "returned" /\ run.stopped) => run.result = Nil
    /\ (run.pc = "returned" /\ run.result.kind = "read") =>
          /\ ~run.stopped
          /\ rd.pc = "done"
          /\ rd.result \notin {Nil, Canceled}

C28_Witness ==
    /\ run.pc = "returned"
    /\ run.stopped
    /\ rd.pc = "done"
    /\ readErr = <<>>
    /\ lastRead = Err("close", 1002)
    /\ rd.result = Err("unexpected", 1002)
    /\ run.result = Nil

\* The frames read, and the records emitted, with the context cancelled.
LateReads ==
    Cardinality({k \in 1..Len(log) : log[k].readLate})
    + (IF InFlight /\ rd.readLate THEN 1 ELSE 0)

LateEmits == Cardinality({k \in 1..Len(log) : log[k].doneLate /\ log[k].emitIdx > 0})

\* C29: a loop iteration that starts with the context cancelled returns the
\* cancellation error without reading; so at most one frame is read, and at
\* most one record emitted, after the cancellation.
C29_AtMostOneFrameAfterCancel ==
    /\ [][(rd.pc = "top" /\ ctxDone /\ rd' # rd) =>
             (rd'.pc = "returned" /\ rd'.result = Canceled /\ framesLeft' = framesLeft)]_vars
    /\ [](LateReads <= 1 /\ LateEmits <= 1)

C29_Witness ==
    /\ rd.pc = "returned"
    /\ rd.result = Canceled
    /\ Len(log) = 2
    /\ ~log[1].readLate
    /\ log[2].readLate
    /\ log[2].doneLate
    /\ log[2].emitIdx = 2

----------------------------------------------------------------------------
(* Specifications *)

PipelineUnused ==
    /\ run = RunIdle
    /\ ctxDone = FALSE
    /\ interrupt = 0
    /\ readErr = <<>>
    /\ rd = RdIdle
    /\ framesLeft = 0
    /\ emitted = <<>>
    /\ log = <<>>
    /\ lastRead = Nil
    /\ clock = ClockIdle

\* One Decode call on a bounded frame.
InitDecode == InitDecodeVars /\ InitSession /\ PipelineUnused

SpecDecode == InitDecode /\ [][NextDecode]_vars

\* Several Decode calls, one after the other, on one LZWDecoder.
SpecDecodeCalls == InitDecode /\ [][NextDecodeCalls]_vars

\* One DisplayStrike call on a location.
InitLabel ==
    /\ DecodeUnused
    /\ InitSession
    /\ run = RunIdle
    /\ ctxDone = FALSE
    /\ interrupt = 0
    /\ readErr = <<>>
    /\ \E location \in Locations :
          rd = [RdIdle EXCEPT !.pc = "display", !.location = location]
    /\ framesLeft = 0
    /\ emitted = <<>>
    /\ log = <<>>
    /\ lastRead = Nil
    /\ clock = ClockIdle

NextLabel == CallDisplayStrike

SpecLabel == InitLabel /\ [][NextLabel]_vars

\* A caller invoking the methods of one WSClient in any order.
NextSession ==
    \/ CallConnect
    \/ CallClose
    \/ CallSendMessage

InitSessionCalls == DecodeUnused /\ InitSession /\ PipelineUnused

SpecSession == InitSessionCalls /\ [][NextSession]_vars

\* One Client.Run with its read goroutine, the peer, the lookup service, the
\* interrupt signal and time.
Init ==
    /\ DecodeUnused
    /\ InitSession
    /\ run = [RunIdle EXCEPT !.pc = "connect"]
    /\ ctxDone = FALSE
    /\ interrupt = 0
    /\ readErr = <<>>
    /\ rd = RdIdle
    /\ framesLeft = MaxFrames
    /\ emitted = <<>>
    /\ log = <<>>
    /\ lastRead = Nil
    /\ clock = ClockIdle

Next ==
    \/ RunConnect
    \/ RunSendAndStart
    \/ Signal
    \/ RunReceivesReadErr
    \/ RunInterrupted
    \/ RunGraceReceives
    \/ RunGraceTimeout
    \/ GoSendReadErr
    \/ RdEnter
    \/ RdLoopTop
    \/ RdReadFrame
    \/ RdReadError
    \/ RdLookupReturns
    \/ RdSleepDone
    \/ Tick

Spec == Init /\ [][Next]_vars

\* The same run, with the one progress the claim on Close rests on: a read on a
\* connection that has been closed does return.
ReadOnClosedConn == RdReadError /\ ws.closed

SpecClose == Init /\ [][Next]_vars /\ WF_vars(ReadOnClosedConn)

\* One ReadMessages call made on a session by a caller that may cancel its
\* context at any moment.
InitReader ==
    /\ DecodeUnused
    /\ calls = <<>>
    /\ \E dialOk \in BOOLEAN :
          /\ ws = Connect(NewWSClient, dialOk).ws
          /\ sessionOpen = dialOk
    /\ run = RunIdle
    /\ ctxDone = FALSE
    /\ interrupt = 0
    /\ readErr = <<>>
    /\ rd = [RdIdle EXCEPT !.pc = "entry"]
    /\ framesLeft = MaxFrames
    /\ emitted = <<>>
    /\ log = <<>>
    /\ lastRead = Nil
    /\ clock = ClockIdle

NextReader ==
    \/ RdEnter
    \/ RdLoopTop
    \/ RdReadFrame
    \/ RdReadError
    \/ RdLookupReturns
    \/ RdSleepDone
    \/ CallerCancels
    \/ Tick

SpecReader == InitReader /\ [][NextReader]_vars

====
